---------------------------- MODULE Spec2Model ----------------------------
(***************************************************************************)
(* Merkle Search Tree of src/src/tree.rs: the node model, Node::insert     *)
(* (leaf-level upsert, descent with the last-child clamp, positional       *)
(* split), Node::recalculate, MerkleSearchTree::new / insert / hash and    *)
(* xor_assign over NodeHash.                                               *)
(*                                                                         *)
(* Keys are the integers 0..MaxKey (K an integer type, K::default() = 0).  *)
(* Values are the abstract strings 1..NumValues.  A NodeHash is the set of *)
(* its 1 bits among HashBits positions (256 in the source).                *)
(*                                                                         *)
(* Spec is the program of one tree; SpecPair the program of two trees, as  *)
(* in test_merkle_property.  A panic ends the program.                     *)
(***************************************************************************)
EXTENDS Integers, Sequences, FiniteSets, TLC

\* ------------------------------------------------------------- bounds
MaxKey == 3
NumValues == 2
MaxFanout == 3
MaxInserts == 4
MaxPairInserts == 3
HashBits == 4

\* K::default() for an integer key type.
KeyDefault == 0

Keys == 0..MaxKey
Values == 1..NumValues
FanoutValues == 0..MaxFanout

\* ------------------------------------------------------------- NodeHash
\* A NodeHash ([u8; 32], 256 bits) is modelled by the set of the positions of its
\* 1 bits, positions 1..HashBits; byte-wise ^= is then the symmetric difference.

\* NodeHash([0; 32]) / NodeHash::default()
ZeroHash == {}

\* xor_assign(target, source): the new value of target (*t ^= s for each byte).
xor_assign(target, source) == (target \ source) \cup (source \ target)

\* sha2::Sha256 over value.as_bytes(): an opaque, deterministic digest.  The
\* stand-in is injective, never all-zero, and the digests of distinct values are
\* linearly independent under XOR (bit `value` is set by that value alone), so
\* that no XOR of digests of distinct values vanishes by accident; the higher
\* bits are mixed.
Sha256(value) ==
    {value} \cup {b \in (NumValues + 1)..HashBits : (value * b) % 3 = 1}

\* ------------------------------------------------------------- Node
Leaf(key, hash) == [kind |-> "Leaf", key |-> key, hash |-> hash]

Internal(hash, children, max_key) ==
    [kind |-> "Internal", hash |-> hash, children |-> children, max_key |-> max_key]

\* A bug: the default node starts with a non-zero hash.
NodeDefault_NonZeroHash == Internal(Sha256(NumValues), <<>>, KeyDefault)

\* Node::default()
NodeDefault == Internal(ZeroHash, <<>>, KeyDefault)

\* Node::key
NodeKey(n) == IF n.kind = "Internal" THEN n.max_key ELSE n.key

\* Node::hash
NodeHashOf(n) == n.hash

\* Node::is_internal
is_internal(n) == n.kind = "Internal"

\* Option<Node>: None is <<>>, Some(n) is <<n>>.
None == <<>>
Some(n) == <<n>>

Last(s) == s[Len(s)]

RECURSIVE XorFold(_, _)
\* for child in children { xor_assign(hash, child.hash()) }
XorFold(hash, children) ==
    IF children = <<>> THEN hash
    ELSE XorFold(xor_assign(hash, NodeHashOf(Head(children))), Tail(children))

\* Node::recalculate on an Internal node (a no-op on a Leaf).
recalculate(n) ==
    IF ~is_internal(n) THEN n
    ELSE IF n.children = <<>> THEN Internal(ZeroHash, n.children, n.max_key)
    ELSE Internal(XorFold(ZeroHash, n.children), n.children, NodeKey(Last(n.children)))


\* ------------------------------------------------------------- Node::insert
\* Vec::insert(index, element), index 0-based.
VecInsert(v, index, e) ==
    SubSeq(v, 1, index) \o <<e>> \o SubSeq(v, index + 1, Len(v))

\* A bug: a search that never reports an existing key.
binary_search_never_found(children, new_node) ==
    [ok |-> FALSE,
     index |-> Cardinality({i \in 1..Len(children) :
                               NodeKey(children[i]) < NodeKey(new_node)})]

\* children.binary_search(&new_node) under Ord for Node (compares key()):
\* Ok(index) of the element with an equal key, else Err(index) of the insertion
\* point.  Indices are 0-based as in the source.
binary_search(children, new_node) ==
    LET eq == {i \in 1..Len(children) : NodeKey(children[i]) = NodeKey(new_node)}
        lt == {i \in 1..Len(children) : NodeKey(children[i]) < NodeKey(new_node)}
    IN  IF eq # {}
        THEN [ok |-> TRUE, index |-> (CHOOSE i \in eq : \A j \in eq : i <= j) - 1]
        ELSE [ok |-> FALSE, index |-> Cardinality(lt)]

\* children.partition_point(|child| child.key() < new_node.key()), 0-based.
partition_point(children, new_node) ==
    LET ge == {i \in 1..Len(children) : ~(NodeKey(children[i]) < NodeKey(new_node))}
    IN  IF ge = {} THEN Len(children)
        ELSE (CHOOSE i \in ge : \A j \in ge : i <= j) - 1

\* A bug: the descent index without the clamp to the last child.
ChildIndex_NoClamp(children, new_node) == partition_point(children, new_node)

\* Lines 165-171: the descent index, clamped to the last child.
ChildIndex(children, new_node) ==
    LET child_index == partition_point(children, new_node)
    IN  IF child_index = Len(children) THEN Len(children) - 1 ELSE child_index

\* A bug: the old leaf's hash is not cancelled before the new one is applied.
UpsertFound_NoCancel(self_hash, children, index, new_node) ==
    [hash |-> xor_assign(self_hash, NodeHashOf(new_node)),
     children |-> [children EXCEPT ![index + 1] = new_node]]

\* A bug: the leaf is replaced and the cached hash left as it was.
UpsertFound_NoRehash(self_hash, children, index, new_node) ==
    [hash |-> self_hash, children |-> [children EXCEPT ![index + 1] = new_node]]

\* Ok(index) arm: cancel the old leaf's hash, replace in place, apply the new.
UpsertFound(self_hash, children, index, new_node) ==
    LET h1 == xor_assign(self_hash, NodeHashOf(children[index + 1]))
        c2 == [children EXCEPT ![index + 1] = new_node]
    IN  [hash |-> xor_assign(h1, NodeHashOf(c2[index + 1])), children |-> c2]

\* A bug: the new leaf is inserted and its hash never applied.
InsertNew_NoApply(self_hash, children, index, new_node) ==
    [hash |-> self_hash, children |-> VecInsert(children, index, new_node)]

\* Err(index) arm: insert the new leaf at the sorted position, apply its hash.
InsertNew(self_hash, children, index, new_node) ==
    LET c2 == VecInsert(children, index, new_node)
    IN  [hash |-> xor_assign(self_hash, NodeHashOf(c2[index + 1])), children |-> c2]

\* A bug: the split check off by one.
NeedsSplit_OffByOne(children, max_children) == Len(children) > max_children + 1

\* Line 191: children.len() > max_children
NeedsSplit(children, max_children) == Len(children) > max_children

\* Line 192: let mid = children.len() / 2
SplitMid(children) == Len(children) \div 2

\* A bug: the node that split keeps the max_key it had before the split.
SplitOff_StaleKey(self_hash, kept, new_sibling, max_key) ==
    [node |-> Internal(xor_assign(self_hash, NodeHashOf(new_sibling)), kept, max_key),
     sibling |-> Some(new_sibling)]

\* Lines 193-205: the tail half has become new_sibling (recalculated); its hash is
\* cancelled from self and max_key is refreshed from the last kept child.
SplitOff(self_hash, kept, new_sibling, max_key) ==
    [node |-> Internal(xor_assign(self_hash, NodeHashOf(new_sibling)), kept,
                       IF kept # <<>> THEN NodeKey(Last(kept)) ELSE max_key),
     sibling |-> Some(new_sibling)]

\* Lines 190-211: the split check that ends Node::insert.  Returns the node as
\* it is left and the Option<Node> returned to the caller.
SplitCheck(self_hash, children, max_key, max_children) ==
    IF NeedsSplit(children, max_children)
    THEN SplitOff(self_hash,
                  SubSeq(children, 1, SplitMid(children)),
                  recalculate(Internal(ZeroHash,
                                       SubSeq(children, SplitMid(children) + 1, Len(children)),
                                       KeyDefault)),
                  max_key)
    ELSE [node |-> Internal(self_hash, children,
                            IF children # <<>> THEN NodeKey(Last(children)) ELSE max_key),
          sibling |-> None]

\* One visited node of a descent, for the record kept in `last`:
\* before = the node on entry, index = the 0-based slot used, found = the
\* binary search hit an existing key, filled = children after the insertion
\* and before the split check, node/sibling = the outcome.
Visit(before, leaf_level, index, found, filled, s) ==
    [before |-> before, leaf_level |-> leaf_level, index |-> index, found |-> found,
     filled |-> filled, node |-> s.node, sibling |-> s.sibling]

PanicResult(self, why) ==
    [panic |-> why, node |-> self, sibling |-> None, trace |-> <<>>]

\* What Node::insert leaves and returns once the split check s has run.
Returned(self, leaf_level, index, found, filled, s, subtrace) ==
    [panic |-> "", node |-> s.node, sibling |-> s.sibling,
     trace |-> <<Visit(self, leaf_level, index, found, filled, s)>> \o subtrace]

\* r = [hash, children] after the insertion at this level; then lines 190-211.
Finish(self, leaf_level, index, found, r, max_children, subtrace) ==
    Returned(self, leaf_level, index, found, r.children,
             SplitCheck(r.hash, r.children, self.max_key, max_children), subtrace)

\* Lines 148-161: the base case, bs = children.binary_search(&new_node).
LeafLevelInsert(self, bs, new_node, max_children) ==
    Finish(self, TRUE, bs.index, bs.ok,
           IF bs.ok THEN UpsertFound(self.hash, self.children, bs.index, new_node)
                    ELSE InsertNew(self.hash, self.children, bs.index, new_node),
           max_children, <<>>)

\* A bug: the child's new hash is applied and its old hash never cancelled.
Rehash_NoCancel(self_hash, old_child_hash, new_child_hash) ==
    xor_assign(self_hash, new_child_hash)

\* Lines 178-180: cancel the child's old hash, apply its new hash.
Rehash(self_hash, old_child_hash, new_child_hash) ==
    xor_assign(xor_assign(self_hash, old_child_hash), new_child_hash)

\* A bug: the new sibling is placed before the child that split.
InsertAt_Before(child_index) == child_index

\* Line 184: let insert_at = child_index + 1
InsertAt(child_index) == child_index + 1

\* A bug: the new sibling overwrites the child's right neighbour.
AddSibling_Overwrite(h1, c1, insert_at, sibling) ==
    IF sibling # None
    THEN [hash |-> xor_assign(h1, NodeHashOf(sibling[1])),
          children |-> IF insert_at < Len(c1)
                       THEN [c1 EXCEPT ![insert_at + 1] = sibling[1]]
                       ELSE Append(c1, sibling[1])]
    ELSE [hash |-> h1, children |-> c1]

\* Lines 182-187: add the child's new sibling right after it and apply its hash.
AddSibling(h1, c1, insert_at, sibling) ==
    IF sibling # None
    THEN [hash |-> xor_assign(h1, NodeHashOf(sibling[1])),
          children |-> VecInsert(c1, insert_at, sibling[1])]
    ELSE [hash |-> h1, children |-> c1]

\* Lines 173-187, sub being what children[child_index].insert(...) left and returned.
AbsorbChild(self, child_index, sub) ==
    AddSibling(Rehash(self.hash, NodeHashOf(self.children[child_index + 1]),
                      NodeHashOf(sub.node)),
               [self.children EXCEPT ![child_index + 1] = sub.node],
               InsertAt(child_index), sub.sibling)

\* Lines 173-211 of the recursive case.
AfterDescent(self, child_index, sub, max_children) ==
    IF sub.panic # "" THEN PanicResult(self, sub.panic)
    ELSE Finish(self, FALSE, child_index, FALSE, AbsorbChild(self, child_index, sub),
                max_children, sub.trace)

\* A bug: only a node without children is taken for a leaf-level node.
are_children_leaves_EmptyOnly(children) == children = <<>>

\* Line 146: children.is_empty() || !children[0].is_internal()
are_children_leaves(children) == children = <<>> \/ ~is_internal(children[1])

RECURSIVE NodeInsert(_, _, _)

\* Lines 162-176: children[child_index] is indexed (a panic when out of range)
\* and inserted into.
Descend(self, child_index, new_node, max_children) ==
    IF child_index < 0 \/ child_index >= Len(self.children)
    THEN PanicResult(self, "index out of bounds")
    ELSE AfterDescent(self, child_index,
                      NodeInsert(self.children[child_index + 1], new_node, max_children),
                      max_children)

\* Node::insert(&mut self, new_node, max_children) -> Option<Node>.
\* panic = "" when the call returns; node = self afterwards; trace = the
\* visited nodes, this one first.
NodeInsert(self, new_node, max_children) ==
    IF ~is_internal(self) THEN PanicResult(self, "Cannot insert into a leaf node.")
    ELSE IF are_children_leaves(self.children)
         THEN LeafLevelInsert(self, binary_search(self.children, new_node), new_node,
                              max_children)
         ELSE Descend(self, ChildIndex(self.children, new_node), new_node, max_children)

\* ------------------------------------------------------------- MerkleSearchTree
\* MerkleSearchTree::new(max_children)
new(max_children) == [root |-> NodeDefault, max_children |-> max_children]

\* A bug: the new root adopts the children of both halves instead of the halves.
GrowRoot_Flat(old_root, new_sibling, hash) ==
    recalculate(Internal(hash, old_root.children \o new_sibling.children, KeyDefault))

\* A bug: the new root adopts the sibling's children next to the old root.
GrowRoot_Unwrapped(old_root, new_sibling, hash) ==
    recalculate(Internal(hash, <<old_root>> \o new_sibling.children, KeyDefault))

\* Lines 74-85: a sibling returned by root.insert becomes, with the old root, the
\* children of a new root (created with the leaf's hash, then recalculated).
GrowRoot(old_root, new_sibling, hash) ==
    recalculate(Internal(hash, <<old_root, new_sibling>>, KeyDefault))

\* Lines 74-85, r being what self.root.insert(leaf, self.max_children) left and
\* returned.
AfterRootInsert(tree, hash, r) ==
    IF r.panic # ""
    THEN [panic |-> r.panic, tree |-> tree, trace |-> <<>>, root_split |-> FALSE]
    ELSE [panic |-> "",
          tree |-> [tree EXCEPT !.root = IF r.sibling # None
                                         THEN GrowRoot(r.node, r.sibling[1], hash)
                                         ELSE r.node],
          trace |-> r.trace,
          root_split |-> r.sibling # None]

\* The leaf built at line 72 from the digest of lines 67-70.
NewLeaf(key, hash) == Leaf(key, hash)

\* MerkleSearchTree::insert(key, value): the tree afterwards, with the panic
\* message (if any) and the descent's trace.
TreeInsert(tree, key, value) ==
    AfterRootInsert(tree, Sha256(value),
                    NodeInsert(tree.root, NewLeaf(key, Sha256(value)), tree.max_children))

\* MerkleSearchTree::hash
TreeHash(tree) == NodeHashOf(tree.root)

\* ------------------------------------------------------------- state
VARIABLES
    trees,      \* the MerkleSearchTree instances, a sequence of [root, max_children]
    content,    \* per tree: key -> last value inserted (0 = never inserted)
    count,      \* per tree: completed insert calls
    panicked,   \* "" or the message of the panic that ended the program
    last        \* the last completed insert call of the one-tree program: key,
                \* value, old = the key's value before the call (0 = none),
                \* prev = the root before the call, trace of the descent

vars == <<trees, content, count, panicked, last>>

NoLast == [key |-> 0, value |-> 0, old |-> 0, prev |-> NodeDefault, trace |-> <<>>,
           root_split |-> FALSE]

EmptyContent == [k \in Keys |-> 0]

\* One tree, constructed with any max_children (new accepts every usize).
Init ==
    /\ \E m \in FanoutValues : trees = <<new(m)>>
    /\ content = <<EmptyContent>>
    /\ count = <<0>>
    /\ panicked = ""
    /\ last = NoLast

\* Two trees, constructed independently.
InitPair ==
    /\ \E m1 \in FanoutValues, m2 \in FanoutValues : trees = <<new(m1), new(m2)>>
    /\ content = <<EmptyContent, EmptyContent>>
    /\ count = <<0, 0>>
    /\ panicked = ""
    /\ last = NoLast

\* The state after tree.insert(key, value) on tree t, r being its outcome.  A
\* panic ends the program.
Inserted(t, key, value, r) ==
    /\ panicked' = r.panic
    /\ trees' = [trees EXCEPT ![t] = r.tree]
    /\ IF r.panic # ""
       THEN UNCHANGED <<content, count, last>>
       ELSE /\ content' = [content EXCEPT ![t][key] = value]
            /\ count' = [count EXCEPT ![t] = @ + 1]
            /\ last' = IF Len(trees) = 1
                       THEN [key |-> key, value |-> value, old |-> content[t][key],
                             prev |-> trees[t].root, trace |-> r.trace,
                             root_split |-> r.root_split]
                       ELSE last

\* tree.insert(key, value) on tree t, at most `budget` calls per tree.
InsertCall(t, key, value, budget) ==
    /\ panicked = ""
    /\ count[t] < budget
    /\ Inserted(t, key, value, TreeInsert(trees[t], key, value))

Insert == \E key \in Keys, value \in Values : InsertCall(1, key, value, MaxInserts)

InsertPair ==
    \E t \in 1..2, key \in Keys, value \in Values :
        InsertCall(t, key, value, MaxPairInserts)

Next == Insert

NextPair == InsertPair

Spec == Init /\ [][Next]_vars

SpecPair == InitPair /\ [][NextPair]_vars

\* ------------------------------------------------------------- views of a tree
RECURSIVE LeavesOf(_)
RECURSIVE LeavesOfAll(_)
\* The leaves of a subtree, left to right.
LeavesOf(n) == IF is_internal(n) THEN LeavesOfAll(n.children) ELSE <<n>>

LeavesOfAll(children) ==
    IF children = <<>> THEN <<>>
    ELSE LeavesOf(Head(children)) \o LeavesOfAll(Tail(children))

RECURSIVE InternalsOf(_)
\* The Internal nodes of a subtree, as a set.
InternalsOf(n) ==
    IF is_internal(n)
    THEN {n} \cup UNION {InternalsOf(n.children[i]) : i \in 1..Len(n.children)}
    ELSE {}

Trees == DOMAIN trees

\* The keys a mapping holds.
KeysOf(c) == {k \in Keys : c[k] # 0}

RECURSIVE FoldKeys(_, _)
\* The XOR-fold of the digests of a mapping's values over a set of keys.
FoldKeys(c, ks) ==
    IF ks = {} THEN ZeroHash
    ELSE LET k == CHOOSE x \in ks : TRUE
         IN  xor_assign(Sha256(c[k]), FoldKeys(c, ks \ {k}))

ContentHash(c) == FoldKeys(c, KeysOf(c))

\* The preconditions of binary_search and partition_point (a sorted slice): the
\* children of every Internal node ascend by key(), strictly at the leaf level.
\* They hold for every max_children, so both calls have a unique result.
SlicesSorted ==
    \A t \in Trees : \A n \in InternalsOf(trees[t].root) :
        \A i \in 1..(Len(n.children) - 1) :
            /\ NodeKey(n.children[i]) <= NodeKey(n.children[i + 1])
            /\ ~is_internal(n.children[i]) =>
                   NodeKey(n.children[i]) < NodeKey(n.children[i + 1])

\* Every leaf of the subtree lies `d` levels below n.
RECURSIVE LeavesAtDepth(_, _)
LeavesAtDepth(n, d) ==
    IF is_internal(n)
    THEN \A i \in 1..Len(n.children) : LeavesAtDepth(n.children[i], d - 1)
    ELSE d = 0

\* The number of levels of Internal nodes above the leaves, down the first child.
RECURSIVE Height(_)
Height(n) ==
    IF ~is_internal(n) THEN 0
    ELSE IF n.children = <<>> THEN 1
    ELSE 1 + Height(n.children[1])

\* The structure is sound: leaves at one depth with strictly ascending keys, every
\* Internal node non-empty below the root, within the fan-out bound, and caching
\* the XOR of its children's hashes and the key of its last child.
StructureSound(tree) ==
    /\ LeavesAtDepth(tree.root, Height(tree.root))
    /\ LET ls == LeavesOf(tree.root)
       IN  \A i \in 1..(Len(ls) - 1) : ls[i].key < ls[i + 1].key
    /\ \A n \in InternalsOf(tree.root) :
           /\ Len(n.children) <= tree.max_children
           /\ n.hash = XorFold(ZeroHash, n.children)
           /\ n.children # <<>> => n.max_key = NodeKey(Last(n.children))
           /\ n.children = <<>> => n = tree.root

\* The largest element of a non-empty set.
MaxOf(ks) == CHOOSE x \in ks : \A y \in ks : y <= x

RECURSIVE Levels(_)
\* The tree height: the number of Internal nodes on the longest path from n down.
Levels(n) ==
    IF ~is_internal(n) THEN 0
    ELSE IF n.children = <<>> THEN 1
    ELSE 1 + MaxOf({Levels(n.children[i]) : i \in 1..Len(n.children)})

RECURSIVE Shape(_)
\* The shape of a subtree: the nodes with their keys and children, hashes left out.
Shape(n) ==
    IF is_internal(n)
    THEN [kind |-> "Internal", max_key |-> n.max_key,
          children |-> [i \in 1..Len(n.children) |-> Shape(n.children[i])]]
    ELSE [kind |-> "Leaf", key |-> n.key]

RECURSIVE NumInternals(_)
RECURSIVE NumInternalsAll(_)
\* The number of Internal nodes of a subtree.
NumInternals(n) == IF is_internal(n) THEN 1 + NumInternalsAll(n.children) ELSE 0

NumInternalsAll(children) ==
    IF children = <<>> THEN 0
    ELSE NumInternals(Head(children)) + NumInternalsAll(Tail(children))

\* The keys of the leaves of a subtree.
LeafKeys(n) == {LeavesOf(n)[i].key : i \in 1..Len(LeavesOf(n))}

\* Every key of the set a is smaller than every key of the set b.
AllBelow(a, b) == \A x \in a : \A y \in b : x < y

\* The keys on which two mappings differ.
DiffKeys(c, d) == {k \in Keys : c[k] # d[k]}

\* ------------------------------------------------------------- claims

\* C1: for a tree built with max_fanout >= 2, after any sequence of inserts the
\* root hash is the XOR-fold of hash_value(v) over the distinct keys, v the last
\* value inserted for the key: a function of the mapping alone, whatever the
\* max_fanout, the order and the repetition of the inserts.
C1_RootHashIsContentFold ==
    \A t \in Trees :
        trees[t].max_children >= 2 => TreeHash(trees[t]) = ContentHash(content[t])

\* Three keys are held after four inserts, the last of which gave an existing key
\* another value below an internal-level root made by a root split.
C1_Witness ==
    /\ trees[1].max_children >= 2
    /\ count[1] = 4
    /\ Cardinality(KeysOf(content[1])) = 3
    /\ Height(trees[1].root) = 2
    /\ last.old # 0
    /\ last.old # last.value
    /\ TreeHash(trees[1]) # ZeroHash

\* C1, its consequence for two trees: trees built with max_fanout >= 2 that hold
\* the same mapping have equal root hashes.
C1_EqualContentEqualHash ==
    \A t, u \in Trees :
        (/\ trees[t].max_children >= 2
         /\ trees[u].max_children >= 2
         /\ content[t] = content[u]) => TreeHash(trees[t]) = TreeHash(trees[u])

\* Two trees with different max_children hold the same three keys in different
\* shapes (one has split, the other has not).
C1_TwoShapesReached ==
    /\ Len(trees) = 2
    /\ trees[1].max_children >= 2
    /\ trees[2].max_children >= 2
    /\ trees[1].max_children # trees[2].max_children
    /\ content[1] = content[2]
    /\ Cardinality(KeysOf(content[1])) = 3
    /\ Height(trees[1].root) # Height(trees[2].root)

\* C2 as stated: two trees whose key->value mappings differ have different root
\* hashes.
C2_DifferentContentDifferentHash ==
    \A t, u \in Trees :
        content[t] # content[u] => TreeHash(trees[t]) # TreeHash(trees[u])

\* C2 as amended: two trees built with max_fanout >= 2 whose mappings differ on
\* exactly one key (a key only one of them holds, or a key holding different
\* values) have different root hashes.
C2_OneKeyDifferenceDifferentHash ==
    \A t, u \in Trees :
        (/\ trees[t].max_children >= 2
         /\ trees[u].max_children >= 2
         /\ Cardinality(DiffKeys(content[t], content[u])) = 1)
            => TreeHash(trees[t]) # TreeHash(trees[u])

\* Two trees of different shape, two keys or more each, differing on one key.
C2_Witness ==
    /\ Len(trees) = 2
    /\ trees[1].max_children = 2
    /\ trees[2].max_children >= 2
    /\ Cardinality(DiffKeys(content[1], content[2])) = 1
    /\ Cardinality(KeysOf(content[1])) = 3
    /\ Cardinality(KeysOf(content[2])) = 2
    /\ Height(trees[1].root) = 2
    /\ TreeHash(trees[1]) # TreeHash(trees[2])

\* C3: Tree::new(max_fanout) with max_fanout <= 1 is rejected as a fatal contract
\* violation and yields no usable tree.
C3_NewRejectsDegenerateFanout ==
    \A t \in Trees : trees[t].max_children <= 1 => panicked # ""

\* C4: for max_fanout >= 2, after every completed insert every Internal node,
\* the root and a root created by a root split included, has at most max_fanout
\* children.
C4_FanoutBound ==
    \A t \in Trees :
        trees[t].max_children >= 2 =>
            \A n \in InternalsOf(trees[t].root) : Len(n.children) <= trees[t].max_children

\* A split cascaded from the leaf level through the root, which was replaced by a
\* new root, and some node is full.
C4_Witness ==
    /\ trees[1].max_children >= 2
    /\ last.root_split
    /\ Len(last.trace) >= 2
    /\ last.trace[2].sibling # None
    /\ \E n \in InternalsOf(trees[1].root) : Len(n.children) = trees[1].max_children

\* C5: for max_fanout >= 2, every key ever inserted is held by exactly one Leaf
\* and there is no other Leaf; each Leaf's hash is hash_value of the value last
\* inserted for its key (a re-insert replaces the Leaf in place, also after
\* splits have moved it).
C5_OneLeafPerKey ==
    \A t \in Trees :
        trees[t].max_children >= 2 =>
            LET ls == LeavesOf(trees[t].root)
            IN  /\ Len(ls) = Cardinality(KeysOf(content[t]))
                /\ \A k \in KeysOf(content[t]) :
                       /\ Cardinality({i \in 1..Len(ls) : ls[i].key = k}) = 1
                       /\ \A i \in 1..Len(ls) :
                              ls[i].key = k => ls[i].hash = Sha256(content[t][k])

\* A key was re-inserted with another value after a split had moved its Leaf
\* into a sibling node.
C5_Witness ==
    /\ trees[1].max_children >= 2
    /\ Len(last.trace) >= 2
    /\ last.trace[1].index >= 1
    /\ last.trace[Len(last.trace)].found
    /\ last.old # 0
    /\ last.old # last.value

\* C6: inserting a (key, value) pair whose key already holds that value leaves
\* the root hash unchanged.
C6_UpsertIdempotent ==
    (count[1] >= 1 /\ last.old = last.value) => TreeHash(trees[1]) = NodeHashOf(last.prev)

\* C6 for trees built with max_fanout >= 1 (it fails with max_fanout = 0 only).
C6_UpsertIdempotentFromFanoutOne ==
    trees[1].max_children >= 1 => C6_UpsertIdempotent

\* C7: an insert that changes the mapping (a key not yet present, or another
\* value for an existing key) changes the root hash.
C7_ChangeChangesHash ==
    (count[1] >= 1 /\ last.old # last.value) => TreeHash(trees[1]) # NodeHashOf(last.prev)

\* An existing key below an internal-level root got another value, in place.
C7_Witness ==
    /\ trees[1].max_children >= 2
    /\ count[1] >= 2
    /\ last.old # 0
    /\ last.old # last.value
    /\ Len(last.trace) >= 2
    /\ last.trace[Len(last.trace)].found
    /\ LeavesOf(trees[1].root) # LeavesOf(last.prev)
    /\ Len(LeavesOf(trees[1].root)) = Len(LeavesOf(last.prev))

\* C8: for max_fanout >= 2 insert never panics (no out-of-range child index, no
\* insert into a leaf), for every reachable tree and every key; a key larger
\* than every child's representative key is routed to the last child of each
\* internal-level node on its path, and the structure is sound afterwards.
C8_InsertNeverFails ==
    trees[1].max_children >= 2 =>
        /\ panicked = ""
        /\ \A i \in 1..Len(last.trace) :
               LET v == last.trace[i]
               IN  (/\ ~v.leaf_level
                    /\ \A j \in 1..Len(v.before.children) :
                           NodeKey(v.before.children[j]) < last.key)
                       => v.index = Len(v.before.children) - 1
        /\ StructureSound(trees[1])

\* A key larger than every key of the tree was inserted below an internal-level
\* root and went to the root's last child.
C8_Witness ==
    /\ trees[1].max_children >= 2
    /\ panicked = ""
    /\ Len(last.trace) >= 2
    /\ last.key > NodeKey(last.prev)
    /\ last.trace[1].index = Len(last.prev.children) - 1
    /\ last.old = 0

\* C9: a node splits exactly when the insert leaves it with max_fanout + 1
\* children (never more); it keeps its first floor(len/2) children in order, the
\* new sibling receives the rest in order and is placed right after the node in
\* the parent; when the root splits the new root's children are [old root, new
\* sibling].  With max_fanout = 2 and keys 1 < 2 < 3 inserted in that order (10,
\* 20, 30 in the source's test) the root ends with two Internal children, the
\* first holding {1}, the second {2, 3}.
C9_PositionalSplit ==
    LET m == trees[1].max_children
        tr == last.trace
    IN  /\ \A i \in 1..Len(tr) :
               LET v == tr[i]
                   n == Len(v.filled)
               IN  /\ n <= m + 1
                   /\ (v.sibling # None) <=> (n = m + 1)
                   /\ v.sibling # None =>
                          /\ v.node.children = SubSeq(v.filled, 1, n \div 2)
                          /\ v.sibling[1].children = SubSeq(v.filled, (n \div 2) + 1, n)
                   /\ (i > 1 /\ v.sibling # None) =>
                          /\ tr[i - 1].filled[tr[i - 1].index + 1] = v.node
                          /\ tr[i - 1].filled[tr[i - 1].index + 2] = v.sibling[1]
        /\ (tr # <<>> /\ tr[1].sibling # None) =>
               trees[1].root.children = <<tr[1].node, tr[1].sibling[1]>>
        /\ (tr # <<>> /\ tr[1].sibling = None) => trees[1].root = tr[1].node
        /\ (/\ m = 2
            /\ count[1] = 3
            /\ [i \in 1..Len(last.prev.children) |-> NodeKey(last.prev.children[i])] = <<1, 2>>
            /\ last.key = 3)
               => /\ Len(trees[1].root.children) = 2
                  /\ \A i \in 1..2 : is_internal(trees[1].root.children[i])
                  /\ [i \in 1..Len(LeavesOf(trees[1].root.children[1])) |->
                          LeavesOf(trees[1].root.children[1])[i].key] = <<1>>
                  /\ trees[1].root.children[1].children =
                         <<last.prev.children[1]>>
                  /\ [i \in 1..Len(trees[1].root.children[2].children) |->
                          NodeKey(trees[1].root.children[2].children[i])] = <<2, 3>>

\* C9 for trees built with max_fanout >= 2 (it fails with max_fanout <= 1 only).
C9_PositionalSplitFromFanoutTwo ==
    trees[1].max_children >= 2 => C9_PositionalSplit

\* C10: if two distinct keys hold values with identical hash_value outputs, the
\* root hash equals that of a tree holding the same mapping without the two keys;
\* a tree holding only two such keys has the all-zero root hash of an empty tree.
C10_Cancellation ==
    \A t, u \in Trees : \A k1, k2 \in Keys :
        (/\ k1 # k2
         /\ content[t][k1] # 0
         /\ content[t][k2] # 0
         /\ Sha256(content[t][k1]) = Sha256(content[t][k2]))
            => /\ content[u] = [content[t] EXCEPT ![k1] = 0, ![k2] = 0]
                   => TreeHash(trees[t]) = TreeHash(trees[u])
               /\ KeysOf(content[t]) = {k1, k2} => TreeHash(trees[t]) = ZeroHash

\* C10 for trees built with max_fanout >= 1 (it fails with max_fanout = 0 only).
C10_CancellationFromFanoutOne ==
    (\A t \in Trees : trees[t].max_children >= 1) => C10_Cancellation

\* A split tree holds three keys, two of them with one value; the other tree
\* holds the third key alone and has the same non-zero root hash.
C10_ReachedFromFanoutTwo ==
    /\ Len(trees) = 2
    /\ trees[1].max_children = 2
    /\ Height(trees[1].root) = 2
    /\ \E k1, k2, k3 \in Keys :
           /\ KeysOf(content[1]) = {k1, k2, k3}
           /\ k1 # k2 /\ k1 # k3 /\ k2 # k3
           /\ content[1][k1] = content[1][k2]
           /\ content[2] = [content[1] EXCEPT ![k1] = 0, ![k2] = 0]
    /\ TreeHash(trees[1]) = TreeHash(trees[2])
    /\ TreeHash(trees[1]) # ZeroHash

\* C11: a freshly constructed tree, before any insert, has the all-zero root
\* hash, and hash() is defined in every reachable state (the root is a node whose
\* hash is a NodeHash).
C11_FreshTreeZeroHash ==
    \A t \in Trees :
        /\ count[t] = 0 => TreeHash(trees[t]) = ZeroHash
        /\ trees[t].root.kind \in {"Internal", "Leaf"}
        /\ TreeHash(trees[t]) \in SUBSET (1..HashBits)

\* A tree as new(max_children) returns it: the default root, no insert yet.
C11_Witness ==
    /\ count[1] = 0
    /\ trees[1].max_children >= 2
    /\ trees[1].root = NodeDefault
    /\ trees[1].root.children = <<>>
    /\ TreeHash(trees[1]) = ZeroHash

\* C12: after every completed insert (max_fanout >= 2) the cached hash of every
\* Internal node at every level is the XOR of the current hashes of its direct
\* children: the incrementally maintained hash (cancel-old/apply-new on the
\* descent path, the moved half XOR-ed out on a split) agrees with a recompute
\* from scratch over the node's children.
C12_CachedHashIsChildrenXor ==
    \A t \in Trees :
        trees[t].max_children >= 2 =>
            \A n \in InternalsOf(trees[t].root) :
                /\ n.hash = XorFold(ZeroHash, n.children)
                /\ NodeHashOf(recalculate(n)) = NodeHashOf(n)

\* A split cascaded from the leaf level through the root: the moved half was
\* XOR-ed out of the leaf-level node, whose parent cancelled its old hash and
\* applied the new one, and the hashes involved are not zero.
C12_Witness ==
    /\ trees[1].max_children >= 2
    /\ Len(last.trace) >= 2
    /\ last.trace[2].sibling # None
    /\ NodeHashOf(last.trace[2].sibling[1]) # ZeroHash
    /\ NodeHashOf(last.trace[2].node) # NodeHashOf(last.trace[2].before)
    /\ NodeHashOf(last.trace[1].node) # ZeroHash
    /\ TreeHash(trees[1]) # NodeHashOf(last.prev)

\* C13: after every completed insert (max_fanout >= 2), within every Internal
\* node the children are sorted strictly ascending by representative key, every
\* key in the subtree of child i is smaller than every key in the subtree of
\* child i+1, and the leaves in order have strictly ascending keys, whatever the
\* insertion order.
C13_SortedChildrenAndLeaves ==
    \A t \in Trees :
        trees[t].max_children >= 2 =>
            /\ \A n \in InternalsOf(trees[t].root) :
                   \A i \in 1..(Len(n.children) - 1) :
                       /\ NodeKey(n.children[i]) < NodeKey(n.children[i + 1])
                       /\ AllBelow(LeafKeys(n.children[i]), LeafKeys(n.children[i + 1]))
            /\ \A i \in 1..(Len(LeavesOf(trees[t].root)) - 1) :
                   LeavesOf(trees[t].root)[i].key < LeavesOf(trees[t].root)[i + 1].key

\* Four keys inserted out of ascending order (the last one below a key already
\* held) sit under an internal-level root whose children each hold a leaf.
C13_Witness ==
    /\ trees[1].max_children >= 2
    /\ count[1] = 4
    /\ Len(LeavesOf(trees[1].root)) = 4
    /\ Len(last.trace) >= 2
    /\ last.old = 0
    /\ last.key < NodeKey(last.prev)
    /\ Len(trees[1].root.children) >= 2
    /\ \A i \in 1..Len(trees[1].root.children) :
           LeafKeys(trees[1].root.children[i]) # {}

\* C14: after every completed insert (max_fanout >= 2), the cached representative
\* key (max_key) of every Internal node is the representative key of its last
\* child and the largest key among the leaves of its subtree; so it is for a node
\* that was split, for the new sibling and for a newly created root.
C14_MaxKeyIsLastAndLargest ==
    \A t \in Trees :
        (trees[t].max_children >= 2 /\ count[t] >= 1) =>
            \A n \in InternalsOf(trees[t].root) :
                /\ n.children # <<>>
                /\ n.max_key = NodeKey(Last(n.children))
                /\ n.max_key = MaxOf(LeafKeys(n))

\* The root split on a key larger than every key held: the old root's max_key
\* went down to its last kept child's, the sibling and the new root carry the
\* new key.
C14_Witness ==
    /\ trees[1].max_children >= 2
    /\ last.root_split
    /\ last.key > NodeKey(last.prev)
    /\ NodeKey(last.trace[1].node) < NodeKey(last.trace[1].before)
    /\ NodeKey(last.trace[1].sibling[1]) = last.key
    /\ NodeKey(trees[1].root) = last.key
    /\ trees[1].root.children = <<last.trace[1].node, last.trace[1].sibling[1]>>

\* C15: tree height is monotone over any sequence of inserts: an insert never
\* decreases it, increases it by at most one level even when splits cascade up
\* from the leaf level, and increases it exactly when the root itself splits.
C15_HeightMonotone ==
    [][/\ Levels(trees'[1].root) >= Levels(trees[1].root)
       /\ Levels(trees'[1].root) <= Levels(trees[1].root) + 1
       /\ (Levels(trees'[1].root) = Levels(trees[1].root) + 1)
              <=> (panicked' = "" /\ last'.root_split)
       /\ Height(trees'[1].root) = Levels(trees'[1].root)]_vars

\* One insert split the leaf-level node, then the root above it: the height went
\* from two to three, by one level.
C15_Witness ==
    /\ trees[1].max_children >= 2
    /\ last.root_split
    /\ Len(last.trace) = 2
    /\ last.trace[2].sibling # None
    /\ last.trace[1].sibling # None
    /\ Levels(last.prev) = 2
    /\ Levels(trees[1].root) = 3

\* C16: an insert of a key that is already present (an update) never changes
\* the tree's shape: no node's child count changes, no split occurs, no node is
\* created, height and every representative key are unchanged; only the Leaf's
\* hash and the cached hashes of its ancestors may change.
C16_UpdateKeepsShape ==
    (count[1] >= 1 /\ last.old # 0) =>
        /\ Shape(trees[1].root) = Shape(last.prev)
        /\ ~last.root_split
        /\ \A i \in 1..Len(last.trace) : last.trace[i].sibling = None
        /\ Levels(trees[1].root) = Levels(last.prev)
        /\ Len(LeavesOf(trees[1].root)) = Len(LeavesOf(last.prev))
        /\ \A i \in 1..Len(LeavesOf(last.prev)) :
               LeavesOf(last.prev)[i].key # last.key
                   => LeavesOf(trees[1].root)[i] = LeavesOf(last.prev)[i]

\* C16 for trees built with max_fanout >= 2 (it fails with max_fanout <= 1 only).
C16_UpdateKeepsShapeFromFanoutTwo ==
    trees[1].max_children >= 2 => C16_UpdateKeepsShape

\* An update two levels down gave a key another value: the shape is the one
\* before the call and the root hash is another.
C16_UpdateReachedFromFanoutTwo ==
    /\ trees[1].max_children >= 2
    /\ last.old # 0
    /\ last.old # last.value
    /\ Len(last.trace) >= 2
    /\ last.trace[Len(last.trace)].found
    /\ Cardinality(KeysOf(content[1])) = 3
    /\ Shape(trees[1].root) = Shape(last.prev)
    /\ TreeHash(trees[1]) # NodeHashOf(last.prev)

\* C17: after every completed insert (max_fanout >= 2) the tree is
\* level-uniform: the direct children of every Internal node are either all Leaf
\* or all Internal, and every Leaf lies at the same depth below the root, so the
\* level decided from children[0] alone is the level of every child.
C17_LevelUniform ==
    \A t \in Trees :
        trees[t].max_children >= 2 =>
            /\ \A n \in InternalsOf(trees[t].root) :
                   /\ \A i, j \in 1..Len(n.children) :
                          is_internal(n.children[i]) = is_internal(n.children[j])
                   /\ are_children_leaves(n.children)
                          <=> \A i \in 1..Len(n.children) : ~is_internal(n.children[i])
            /\ LeavesAtDepth(trees[t].root, Levels(trees[t].root))

\* After a cascading split the root has Internal children only, which have Leaf
\* children only, four leaves in all, two levels below the new root's children.
C17_Witness ==
    /\ trees[1].max_children >= 2
    /\ last.root_split
    /\ Levels(trees[1].root) = 3
    /\ Len(LeavesOf(trees[1].root)) = 4
    /\ \A i \in 1..Len(trees[1].root.children) :
           /\ is_internal(trees[1].root.children[i])
           /\ ~are_children_leaves(trees[1].root.children[i].children)

\* C18: every insert call terminates: the descent visits exactly one node per
\* tree level (the recursion depth is the current height), each visited node
\* being the chosen child of the one before, splits each visited node at most
\* once, and returns, for every reachable tree and every key.
C18_InsertTerminates ==
    /\ panicked = ""
    /\ count[1] >= 1 =>
           /\ Len(last.trace) = Levels(last.prev)
           /\ last.trace[1].before = last.prev
           /\ \A i \in 1..(Len(last.trace) - 1) :
                  /\ ~last.trace[i].leaf_level
                  /\ last.trace[i].index + 1 \in 1..Len(last.trace[i].before.children)
                  /\ last.trace[i + 1].before =
                         last.trace[i].before.children[last.trace[i].index + 1]
           /\ last.trace[Len(last.trace)].leaf_level
           /\ NumInternals(trees[1].root) =
                  NumInternals(last.prev)
                  + Cardinality({i \in 1..Len(last.trace) : last.trace[i].sibling # None})
                  + (IF last.root_split THEN 1 ELSE 0)

\* An insert into a tree of height two visited two nodes, split both and
\* returned; three Internal nodes were created, the new root included.
C18_Witness ==
    /\ panicked = ""
    /\ trees[1].max_children >= 2
    /\ Levels(last.prev) = 2
    /\ Len(last.trace) = 2
    /\ \A i \in 1..2 : last.trace[i].sibling # None
    /\ NumInternals(trees[1].root) = NumInternals(last.prev) + 3

\* The children of a visited node that the insert did not choose are, after the
\* insertion at this level, the ones before it, in order: those left of the
\* chosen slot, and those right of it (shifted by `added` new entries).
OthersKept(v, added) ==
    /\ SubSeq(v.filled, 1, v.index) = SubSeq(v.before.children, 1, v.index)
    /\ SubSeq(v.filled, v.index + 1 + added, Len(v.filled)) =
           SubSeq(v.before.children, v.index + 1 + (IF v.leaf_level /\ ~v.found THEN 0 ELSE 1),
                  Len(v.before.children))

\* C19: an insert modifies only the nodes on the single root-to-leaf descent
\* path (plus the siblings and the root it creates by splitting): every node off
\* that path keeps its cached hash, its representative key and its children,
\* apart from being moved as a whole into a new sibling when its parent splits.
C19_OffPathUnchanged ==
    count[1] >= 1 =>
        /\ \A i \in 1..Len(last.trace) :
               LET v == last.trace[i]
               IN  /\ v.leaf_level => OthersKept(v, 1)
                   /\ ~v.leaf_level =>
                          /\ i < Len(last.trace)
                          /\ v.filled[v.index + 1] = last.trace[i + 1].node
                          /\ OthersKept(v, IF last.trace[i + 1].sibling # None THEN 2 ELSE 1)
                   /\ v.sibling = None => v.node.children = v.filled
                   /\ v.sibling # None =>
                          v.node.children \o v.sibling[1].children = v.filled
        /\ last.trace # <<>>
        /\ last.trace[1].before = last.prev
        /\ ~last.root_split => trees[1].root = last.trace[1].node
        /\ last.root_split =>
               trees[1].root.children = <<last.trace[1].node, last.trace[1].sibling[1]>>

\* An insert two levels down split the leaf-level node it reached; the root's
\* other child, holding leaves, is in the tree afterwards as it was before.
C19_Witness ==
    /\ trees[1].max_children >= 2
    /\ Len(last.trace) = 2
    /\ last.trace[2].sibling # None
    /\ \E j \in 1..Len(last.prev.children) :
           /\ j # last.trace[1].index + 1
           /\ LeafKeys(last.prev.children[j]) # {}
           /\ last.prev.children[j] \in InternalsOf(trees[1].root)
           /\ \E k \in 1..Len(last.trace[1].filled) :
                  last.trace[1].filled[k] = last.prev.children[j]

=============================================================================
